---- MODULE Spec2Model ----
(***************************************************************************)
(* marcup: building a MARC record from the rows of a digital-collection    *)
(* CSV (src/src/marcup/__main__.py).                                       *)
(*                                                                         *)
(* A Python string is a sequence of atoms.  An atom is one character       *)
(* wherever the code looks at characters (";", ":", "'", " ", the letters  *)
(* of a name given to title_case, the digits of a date), and a longer      *)
(* piece of text where the code only copies it or searches for it as a     *)
(* whole ("id.loc.gov", "id.worldcat.org/fast", "The collection", "Iowa",  *)
(* the literals of the code).  A row is a function from the column names   *)
(* it has to cells; a column a row lacks is not in its DOMAIN.  A dict is  *)
(* the sequence of its items in insertion order.                           *)
(*                                                                         *)
(* IslandoraRecord is defined at line 225 as a subclass of the first       *)
(* MarcupRecord (line 12); the second class statement of that name (line   *)
(* 579) rebinds the name afterwards and is not a base of IslandoraRecord.  *)
(***************************************************************************)
EXTENDS Integers, Sequences, FiniteSets, TLC

VARIABLES
    metadata,   \* the rows read from the CSV (digital_collection_metadata)
    args,       \* the arguments of the call under way
    pc,         \* the position in main / IslandoraRecord.__init__ / the call
    self,       \* the attributes of the record under construction
    fields,     \* Record.fields: the fields added so far, in order
    locals,     \* the local variables of the call under way that are observed
    raised,     \* "none", or the exception that ended the run
    out,        \* the output file: "unopened" or "written"
    ret         \* the value returned by the call under way

vars == <<metadata, args, pc, self, fields, locals, raised, out, ret>>

----------------------------------------------------------------------------
(* Bounds of the model *)

\* rows of a collection given to IslandoraRecord
MaxRows == 2
\* the values of max tried besides the default
MaxMax == 2
\* rows given to the term aggregator alone
MaxTermRows == 2
\* (term, uri) pairs given to _add_terms_multiple_vocabularies alone
MaxPairs == 2
\* rows given to get_years alone
MaxDateRows == 3
\* words of a title given to title_case alone
MaxWords == 5
\* geographic terms given to add_geographic_area_codes alone
MaxGeoTerms == 3

\* IslandoraRecord.__init__(self, metadata, max=5)
DefaultMax == 5

----------------------------------------------------------------------------
(* Python built-ins *)

Min(a, b) == IF a < b THEN a ELSE b

\* x in s, for an atom x of the string s
Contains(s, x) == \E i \in 1..Len(s) : s[i] = x

\* s[i:], 0-based i
SliceFrom(s, i) == SubSeq(s, i + 1, Len(s))

\* s[:n]
SliceTo(s, n) == SubSeq(s, 1, Min(n, Len(s)))

\* position of the first occurrence of the atom x in s (x occurs in s)
Find(s, x) == CHOOSE i \in 1..Len(s) : s[i] = x /\ \A j \in 1..(i - 1) : s[j] /= x

\* s.split(sep): always at least one piece
RECURSIVE Split(_, _)
Split(s, sep) ==
    IF ~Contains(s, sep)
    THEN <<s>>
    ELSE <<SubSeq(s, 1, Find(s, sep) - 1)>> \o Split(SliceFrom(s, Find(s, sep)), sep)

IsSpace(c) == c = " "

\* s.strip()
RECURSIVE Strip(_)
Strip(s) ==
    IF s = <<>> THEN s
    ELSE IF IsSpace(s[1]) THEN Strip(Tail(s))
    ELSE IF IsSpace(s[Len(s)]) THEN Strip(SubSeq(s, 1, Len(s) - 1))
    ELSE s

\* row.get(column, default)
Get(row, column, default) == IF column \in DOMAIN row THEN row[column] ELSE default

\* row[column] raises KeyError when the row lacks the column
Has(row, column) == column \in DOMAIN row

\* zip(a, b): as long as the shorter
Zip(a, b) == [i \in 1..Min(Len(a), Len(b)) |-> <<a[i], b[i]>>]

\* itertools.zip_longest(a, b, fillvalue=fill): as long as the longer
ZipLongest(a, b, fill) ==
    [i \in 1..(IF Len(a) > Len(b) THEN Len(a) ELSE Len(b)) |->
        <<IF i <= Len(a) THEN a[i] ELSE fill, IF i <= Len(b) THEN b[i] ELSE fill>>]

----------------------------------------------------------------------------
(* The term aggregator *)

\* terms_counter: a dict, as the sequence of its items [key, n] in insertion order
KeyIndex(terms, term) == CHOOSE i \in 1..Len(terms) : terms[i].key = term

HasKey(terms, term) == \E i \in 1..Len(terms) : terms[i].key = term

_update_term_counting_dict_NoIncrement(terms, term) ==
    IF HasKey(terms, term) THEN terms ELSE Append(terms, [key |-> term, n |-> 1])

_update_term_counting_dict(terms, term) ==
    IF HasKey(terms, term)
    THEN [terms EXCEPT ![KeyIndex(terms, term)].n = @ + 1]
    ELSE Append(terms, [key |-> term, n |-> 1])

\* for term in terms: terms_counter = _update_term_counting_dict(terms_counter, term)
RECURSIVE UpdateAll(_, _)
UpdateAll(terms_counter, pieces) ==
    IF pieces = <<>> THEN terms_counter
    ELSE UpdateAll(_update_term_counting_dict(terms_counter, Head(pieces)), Tail(pieces))

\* sorted(items, key=count, reverse=True): stable, so items of equal count keep
\* their order; built by inserting each item after the items of count >= its own
InsertByCountUnstable(sorted, item) ==
    LET k == Cardinality({i \in 1..Len(sorted) : sorted[i].n > item.n})
    IN  SubSeq(sorted, 1, k) \o <<item>> \o SubSeq(sorted, k + 1, Len(sorted))

InsertByCount(sorted, item) ==
    LET k == Cardinality({i \in 1..Len(sorted) : sorted[i].n >= item.n})
    IN  SubSeq(sorted, 1, k) \o <<item>> \o SubSeq(sorted, k + 1, Len(sorted))

RECURSIVE SortedByCount(_)
SortedByCount(items) ==
    IF items = <<>> THEN <<>>
    ELSE InsertByCount(SortedByCount(SubSeq(items, 1, Len(items) - 1)), items[Len(items)])

Keys(items) == [i \in 1..Len(items) |-> items[i].key]

\* the body of the row loop of _get_terms for one cell
CountCell(terms_counter, t, sep) ==
    IF t /= <<>>
    THEN IF Contains(t, sep)
         THEN UpdateAll(terms_counter, Split(t, sep))
         ELSE _update_term_counting_dict(terms_counter, t)
    ELSE terms_counter

RECURSIVE CountRows(_, _, _, _)
CountRows(terms_counter, rows, column, sep) ==
    IF rows = <<>> THEN terms_counter
    ELSE CountRows(CountCell(terms_counter, Get(Head(rows), column, <<>>), sep),
                   Tail(rows), column, sep)

RECURSIVE CountColumns(_, _, _, _)
CountColumns(terms_counter, rows, columns, sep) ==
    IF columns = <<>> THEN terms_counter
    ELSE CountColumns(CountRows(terms_counter, rows, Head(columns), sep),
                      rows, Tail(columns), sep)

_get_terms(rows, columns) == Keys(SortedByCount(CountColumns(<<>>, rows, columns, ";")))

\* the paired variant: f"{column}_valueURI"
ValueURIColumn(column) ==
    CASE column = "personal_name_subject" -> "personal_name_subject_valueURI"
      [] column = "corporate_name_subject" -> "corporate_name_subject_valueURI"

\* the body of the row loop of _get_terms_and_uris for one row
CountPairCell(terms_counter, t, u) ==
    IF t /= <<>>
    THEN IF Contains(t, ";")
         THEN UpdateAll(terms_counter, ZipLongest(Split(t, ";"), Split(u, ";"), <<>>))
         ELSE _update_term_counting_dict(terms_counter, <<t, u>>)
    ELSE terms_counter

RECURSIVE CountPairRows(_, _, _)
CountPairRows(terms_counter, rows, column) ==
    IF rows = <<>> THEN terms_counter
    ELSE CountPairRows(CountPairCell(terms_counter,
                                     Get(Head(rows), column, <<" ">>),
                                     Get(Head(rows), ValueURIColumn(column), <<" ">>)),
                       Tail(rows), column)

RECURSIVE CountPairColumns(_, _, _)
CountPairColumns(terms_counter, rows, columns) ==
    IF columns = <<>> THEN terms_counter
    ELSE CountPairColumns(CountPairRows(terms_counter, rows, Head(columns)),
                          rows, Tail(columns))

_get_terms_and_uris(rows, columns) ==
    Keys(SortedByCount(CountPairColumns(<<>>, rows, columns)))

----------------------------------------------------------------------------
(* title_case *)

LowerLetters ==
    <<"a", "b", "c", "d", "e", "f", "g", "h", "i", "j", "k", "l", "m", "n", "o", "p", "q", "r", "s", "t", "u", "v", "w", "x", "y", "z">>

UpperLetters ==
    <<"A", "B", "C", "D", "E", "F", "G", "H", "I", "J", "K", "L", "M", "N", "O", "P", "Q", "R", "S", "T", "U", "V", "W", "X", "Y", "Z">>

IsLower(c) == \E i \in 1..Len(LowerLetters) : LowerLetters[i] = c

IsUpper(c) == \E i \in 1..Len(UpperLetters) : UpperLetters[i] = c

IsCased(c) == IsLower(c) \/ IsUpper(c)

Upper(c) ==
    IF IsLower(c)
    THEN UpperLetters[CHOOSE i \in 1..Len(LowerLetters) : LowerLetters[i] = c]
    ELSE c

Lower(c) ==
    IF IsUpper(c)
    THEN LowerLetters[CHOOSE i \in 1..Len(UpperLetters) : UpperLetters[i] = c]
    ELSE c

\* s.lower()
StrLower(s) == [i \in 1..Len(s) |-> Lower(s[i])]

\* s.title(): a cased character is upper-cased after an uncased one (or at the
\* start) and lower-cased after a cased one
StrTitle(s) ==
    [i \in 1..Len(s) |->
        IF i > 1 /\ IsCased(s[i - 1]) THEN Lower(s[i]) ELSE Upper(s[i])]

\* s.split(): the maximal runs of non-whitespace
RECURSIVE SplitWhitespace(_)
SplitWhitespace(s) ==
    IF s = <<>> THEN <<>>
    ELSE IF IsSpace(s[1]) THEN SplitWhitespace(Tail(s))
    ELSE LET n == IF Contains(s, " ") THEN Find(s, " ") - 1 ELSE Len(s)
         IN  <<SubSeq(s, 1, n)>> \o SplitWhitespace(SliceFrom(s, n))

\* sep.join(parts)
RECURSIVE Join(_, _)
Join(sep, parts) ==
    IF parts = <<>> THEN <<>>
    ELSE IF Len(parts) = 1 THEN parts[1]
    ELSE parts[1] \o sep \o Join(sep, Tail(parts))

dont_capitalize ==
    { <<"A">>,
      <<"A", "n", "d">>,
      <<"A", "s">>,
      <<"A", "t">>,
      <<"B", "u", "t">>,
      <<"B", "y">>,
      <<"D", "o", "w", "n">>,
      <<"F", "o", "r">>,
      <<"F", "r", "o", "m">>,
      <<"I", "f">>,
      <<"I", "n">>,
      <<"I", "n", "t", "o">>,
      <<"L", "i", "k", "e">>,
      <<"N", "e", "a", "r">>,
      <<"N", "o", "r">>,
      <<"O", "f">>,
      <<"O", "f", "f">>,
      <<"O", "n">>,
      <<"O", "n", "c", "e">>,
      <<"O", "n", "t", "o">>,
      <<"O", "r">>,
      <<"O", "v", "e", "r">>,
      <<"P", "a", "s", "t">>,
      <<"S", "o">>,
      <<"T", "h", "a", "n">>,
      <<"T", "h", "a", "t">>,
      <<"T", "o">>,
      <<"U", "p", "o", "n">>,
      <<"W", "h", "e", "n">>,
      <<"W", "i", "t", "h">>,
      <<"Y", "e", "t">> }

\* the body of the loop of title_case for the word at 0-based position i
TitleWord(word, i, len_capped) ==
    LET parts == Split(word, "'")
        w == IF Len(parts) > 1
             THEN Join(<<"'">>, <<parts[1], StrLower(parts[2])>>)
             ELSE word
    IN  IF 0 < i /\ i < len_capped - 1 /\ w \in dont_capitalize
        THEN StrLower(w)
        ELSE w

title_case(title) ==
    LET capped == SplitWhitespace(StrTitle(title))
    IN  Join(<<" ">>, [k \in 1..Len(capped) |-> TitleWord(capped[k], k - 1, Len(capped))])

----------------------------------------------------------------------------
(* Fields *)

\* Field(tag, indicators, subfields): subfields is the flat tuple of the code,
\* code and value alternating; the integer default of fallback_2nd_indicator
\* is written "4"
MkField(tag, indicators, subfields) ==
    [tag |-> tag, ind |-> indicators, sub |-> subfields, data |-> <<>>]

\* Field(tag, data): a control field
MkControlField(tag, data) ==
    [tag |-> tag, ind |-> <<>>, sub |-> <<>>, data |-> data]

\* the tags in ascending order
TagOrder ==
    <<"008", "040", "041", "043", "245", "264", "300", "500", "506", "520", "524", "534",
      "545", "600", "610", "611", "650", "651", "655", "700", "710", "856">>

TagRank(tag) == CHOOSE i \in 1..Len(TagOrder) : TagOrder[i] = tag

\* the field is put before the first field of a higher tag
add_ordered(fs, tag, indicators, subfields) ==
    LET k == Cardinality({i \in 1..Len(fs) : TagRank(fs[i].tag) <= TagRank(tag)})
    IN  SubSeq(fs, 1, k) \o <<MkField(tag, indicators, subfields)>> \o SubSeq(fs, k + 1, Len(fs))

\* MarcupRecord.add: add_field appends
add(fs, tag, indicators, subfields) == Append(fs, MkField(tag, indicators, subfields))

RECURSIVE _add_terms(_, _, _, _, _)
_add_terms(fs, tag, indicators, terms, extra_subfields) ==
    IF terms = <<>> THEN fs
    ELSE _add_terms(IF Head(terms) /= <<>>
                    THEN add(fs, tag, indicators, <<<<"a">>, Head(terms)>> \o extra_subfields)
                    ELSE fs,
                    tag, indicators, Tail(terms), extra_subfields)

AddVocabularyTermFastFirst(fs, tag, t, u, first_indicator, fallback_2nd_indicator) ==
    IF Strip(t) /= <<>>
    THEN IF Contains(u, "id.worldcat.org/fast")
         THEN add(fs, tag, <<first_indicator, "7">>, <<<<"a">>, t, <<"2">>, <<"fast">>>>)
         ELSE IF Contains(u, "id.loc.gov")
         THEN add(fs, tag, <<first_indicator, "0">>, <<<<"a">>, t>>)
         ELSE IF u = <<>>
         THEN add(fs, tag, <<first_indicator, "7">>, <<<<"a">>, t, <<"2">>, <<"local">>>>)
         ELSE add(fs, tag, <<first_indicator, fallback_2nd_indicator>>, <<<<"a">>, t>>)
    ELSE fs

\* the body of the loop of _add_terms_multiple_vocabularies for one pair
AddVocabularyTerm(fs, tag, t, u, first_indicator, fallback_2nd_indicator) ==
    IF Strip(t) /= <<>>
    THEN IF Contains(u, "id.loc.gov")
         THEN add(fs, tag, <<first_indicator, "0">>, <<<<"a">>, t>>)
         ELSE IF Contains(u, "id.worldcat.org/fast")
         THEN add(fs, tag, <<first_indicator, "7">>, <<<<"a">>, t, <<"2">>, <<"fast">>>>)
         ELSE IF u = <<>>
         THEN add(fs, tag, <<first_indicator, "7">>, <<<<"a">>, t, <<"2">>, <<"local">>>>)
         ELSE add(fs, tag, <<first_indicator, fallback_2nd_indicator>>, <<<<"a">>, t>>)
    ELSE fs

RECURSIVE _add_terms_multiple_vocabularies(_, _, _, _, _)
_add_terms_multiple_vocabularies(fs, tag, terms_uris, first_indicator, fallback_2nd_indicator) ==
    IF terms_uris = <<>> THEN fs
    ELSE _add_terms_multiple_vocabularies(
             AddVocabularyTerm(fs, tag, Head(terms_uris)[1], Head(terms_uris)[2],
                               first_indicator, fallback_2nd_indicator),
             tag, Tail(terms_uris), first_indicator, fallback_2nd_indicator)

\* terms -> ["a", t1, "a", t2, ...]
RECURSIVE _repeat_subfields(_)
_repeat_subfields(terms) ==
    IF terms = <<>> THEN <<>>
    ELSE <<<<"a">>, Head(terms)>> \o _repeat_subfields(Tail(terms))

----------------------------------------------------------------------------
(* The column getters of IslandoraRecord *)

get_personal_name_subjects(rows) == _get_terms_and_uris(rows, <<"personal_name_subject">>)

get_corporate_name_subjects(rows) == _get_terms_and_uris(rows, <<"corporate_name_subject">>)

get_topic_subjects(rows) == _get_terms(rows, <<"topical_subject_fast", "topical_subject_local">>)

get_geographic_terms(rows, avian) ==
    IF avian
    THEN _get_terms(rows, <<"geographic_subject_geonames">>)
    ELSE _get_terms(rows, <<"geographic_subject_fast", "geographic_subject_local">>)

get_genre_forms(rows) == _get_terms(rows, <<"aat_genre">>)

get_personal_creators_contributors(rows) ==
    _get_terms(rows, <<"personal_creator", "interviewee", "interviewer", "personal_contributor">>)

get_corporate_creators_contributors(rows) ==
    _get_terms(rows, <<"corporate_creator", "corporate_contributor">>)

get_original_collections(rows) == _get_terms(rows, <<"archival_collection">>)

get_original_call_numbers(rows) == _get_terms(rows, <<"archival_call_number">>)

get_original_arks(rows) == _get_terms(rows, <<"finding_aid_ark">>)

get_languages(rows) == _get_terms(rows, <<"language">>)

----------------------------------------------------------------------------
(* The derived values *)

\* the rows before the first row at which get_disclaimer's loop stops
RowsWithoutDisclaimer(rows) ==
    {i \in 1..Len(rows) :
        \A j \in 1..i : Has(rows[j], "disclaimer") /\ rows[j]["disclaimer"] = <<>>}

\* get_disclaimer: [exc, value]
get_disclaimer(rows) ==
    IF rows = <<>>
    THEN [exc |-> "IndexError", value |-> <<>>]
    ELSE IF Has(rows[1], "disclaimer")
    THEN LET i == Cardinality(RowsWithoutDisclaimer(rows)) + 1
         IN  IF i > Len(rows) THEN [exc |-> "none", value |-> <<>>]
             ELSE IF ~Has(rows[i], "disclaimer") THEN [exc |-> "KeyError", value |-> <<>>]
             ELSE [exc |-> "none", value |-> rows[i]["disclaimer"]]
    ELSE [exc |-> "none", value |-> <<>>]

\* get_object_count: obj["ark"] of every row after the first
get_object_count(rows) ==
    IF \E i \in 2..Len(rows) : ~Has(rows[i], "ark")
    THEN [exc |-> "KeyError", value |-> 0]
    ELSE [exc |-> "none",
          value |-> Cardinality({i \in 2..Len(rows) : rows[i]["ark"] /= <<>>})]

\* the order of the characters of a date
CharOrder == <<"-", "0", "1", "2", "3", "4", "5", "6", "7", "8", "9">>

Ord(c) == CHOOSE i \in 1..Len(CharOrder) : CharOrder[i] = c

\* a < b for strings
RECURSIVE StrLess(_, _)
StrLess(a, b) ==
    IF b = <<>> THEN FALSE
    ELSE IF a = <<>> THEN TRUE
    ELSE IF Head(a) = Head(b) THEN StrLess(Tail(a), Tail(b))
    ELSE Ord(Head(a)) < Ord(Head(b))

\* sorted(strings)
InsertSorted(sorted, x) ==
    LET k == Cardinality({i \in 1..Len(sorted) : ~StrLess(x, sorted[i])})
    IN  SubSeq(sorted, 1, k) \o <<x>> \o SubSeq(sorted, k + 1, Len(sorted))

RECURSIVE Sorted(_)
Sorted(xs) ==
    IF xs = <<>> THEN <<>>
    ELSE InsertSorted(Sorted(SubSeq(xs, 1, Len(xs) - 1)), xs[Len(xs)])

\* [f(x) for x in xs if keep]
RECURSIVE YearsOf(_)
YearsOf(rows) ==
    IF rows = <<>> THEN <<>>
    ELSE (IF Head(rows)["date_original"] /= <<>>
          THEN <<SliceTo(Head(rows)["date_original"], 4)>>
          ELSE <<>>) \o YearsOf(Tail(rows))

\* get_years: [exc, value]
get_years(rows) ==
    IF \E i \in 1..Len(rows) : ~Has(rows[i], "date_original")
    THEN [exc |-> "KeyError", value |-> <<>>]
    ELSE [exc |-> "none", value |-> Sorted(YearsOf(rows))]

get_date_range(years) ==
    IF Len(years) > 1 THEN years[1] \o <<"-">> \o years[Len(years)] \o <<".">>
    ELSE IF Len(years) = 1 THEN years[1]
    ELSE <<>>

\* s.partition(marker): <<before, after>>
Partition(s, marker) ==
    IF Contains(s, marker)
    THEN <<SubSeq(s, 1, Find(s, marker) - 1), SliceFrom(s, Find(s, marker))>>
    ELSE <<s, <<>>>>

\* get_collection_descriptions: [exc, bio_hist, summary]
get_collection_descriptions(rows) ==
    IF ~Has(rows[1], "description")
    THEN [exc |-> "KeyError", bio_hist |-> <<>>, summary |-> <<>>]
    ELSE LET p == Partition(rows[1]["description"], "The collection")
         IN  IF p[2] = <<>>
             THEN [exc |-> "none", bio_hist |-> p[1], summary |-> <<>>]
             ELSE IF ~Has(rows[1], "title")
             THEN [exc |-> "KeyError", bio_hist |-> <<>>, summary |-> <<>>]
             ELSE [exc |-> "none", bio_hist |-> p[1],
                   summary |-> rows[1]["title"] \o <<" ">> \o p[2]]

\* get_title: the subfields of the title (the first row has a title)
get_title(rows) ==
    LET subfields == Split(rows[1]["title"], ":")
    IN  IF Len(subfields) = 2
        THEN <<<<"a">>, subfields[1] \o <<" : ">>, <<"b">>, subfields[2] \o <<", ">>>>
        ELSE <<<<"a">>, subfields[1] \o <<", ">>>>

\* marcup.area_codes.area_codes
area_codes ==
    (<<"Iowa">> :> <<"n-us-ia">>)
    @@ (<<"Boone County (", "Iowa", ")">> :> <<"n-us-ia---">>)
    @@ (<<"Illinois">> :> <<"n-us-il">>)

\* the loop of add_geographic_area_codes
RECURSIVE FoundAreaCodes(_)
FoundAreaCodes(terms) ==
    IF terms = <<>> THEN <<>>
    ELSE (IF Head(terms) \in DOMAIN area_codes THEN <<area_codes[Head(terms)]>> ELSE <<>>)
         \o FoundAreaCodes(Tail(terms))

geographic_area_codes_UnlessIowaIsATerm(terms) ==
    FoundAreaCodes(terms)
    \o (IF (\E i \in 1..Len(terms) : Contains(terms[i], "Iowa"))
           /\ ~(\E i \in 1..Len(terms) : terms[i] = <<"Iowa">>)
        THEN <<area_codes[<<"Iowa">>]>>
        ELSE <<>>)

geographic_area_codes(terms) ==
    FoundAreaCodes(terms)
    \o (IF \E i \in 1..Len(terms) : Contains(terms[i], "Iowa")
        THEN <<area_codes[<<"Iowa">>]>>
        ELSE <<>>)

add_geographic_area_codes(fs, terms) ==
    IF geographic_area_codes(terms) /= <<>>
    THEN add(fs, "043", <<" ", " ">>, _repeat_subfields(geographic_area_codes(terms)))
    ELSE fs

\* the citation of add_preferred_citation
citation_string(digital_collection, original_collections, original_call_numbers, max) ==
    LET z == Zip(SliceTo(original_collections, max), SliceTo(original_call_numbers, max))
        originals_string ==
            Join(<<" ">>, [i \in 1..Len(z) |-> title_case(z[i][1]) \o <<", ">> \o z[i][2]])
    IN  digital_collection \o <<", ">> \o originals_string
        \o <<", Special Collections and University Archives, Iowa State University Library.">>

\* the fields of the original version notes (534)
original_version_fields(physical_collections, physical_call_numbers) ==
    LET z == Zip(physical_collections, physical_call_numbers)
    IN  [i \in 1..Len(z) |->
            MkField("534", <<" ", " ">>,
                    <<<<"p">>, <<"Originals can be found in:">>,
                      <<"t">>, title_case(z[i][1]),
                      <<"o">>, z[i][2],
                      <<"l">>, <<"Special Collections and University Archives, Iowa State University Library.">>>>)]

\* the fields of add_finding_aid_links
finding_aid_fields(rows, max) ==
    LET z == Zip(SliceTo(get_original_collections(rows), max),
                 SliceTo(get_original_arks(rows), max))
    IN  [i \in 1..Len(z) |->
            MkField("856", <<"4", "2">>,
                    <<<<"3">>, <<"Finding aid for ">> \o title_case(z[i][1]),
                      <<"u">>, z[i][2]>>)]

\* date.today().strftime('%y%m%d')
Today == <<"yymmdd">>

----------------------------------------------------------------------------
(* main and IslandoraRecord.__init__, one action per statement *)

NoSelf ==
    [max |-> 0, avian |-> FALSE, disclaimer |-> <<>>, digital_collection |-> <<>>,
     physical_collections |-> <<>>, physical_call_numbers |-> <<>>, years |-> <<>>,
     geographic_terms |-> <<>>, bio_hist |-> <<>>, summary |-> <<>>, leader |-> <<>>]

\* the statement is done: go on at `next`
Goto(next, self2, fields2) ==
    /\ pc' = next
    /\ self' = self2
    /\ fields' = fields2
    /\ UNCHANGED <<metadata, args, locals, raised, out, ret>>

\* the statement raises: the exception leaves __init__ and main
Raise(exc) ==
    /\ pc' = "raised"
    /\ raised' = exc
    /\ UNCHANGED <<metadata, args, self, fields, locals, out, ret>>

\* record = IslandoraRecord(rows[, avian=True]); then super().__init__(metadata)
\* and self.max = max.  __init__(self, metadata, max=5) takes no avian.
Construct ==
    /\ pc = "main"
    /\ IF args.avian
       THEN Raise("TypeError")
       ELSE Goto("disclaimer", [self EXCEPT !.avian = FALSE, !.max = args.max], fields)

SetDisclaimer ==
    /\ pc = "disclaimer"
    /\ IF get_disclaimer(metadata).exc /= "none"
       THEN Raise(get_disclaimer(metadata).exc)
       ELSE Goto("digital_collection",
                 [self EXCEPT !.disclaimer = get_disclaimer(metadata).value], fields)

SetDigitalCollection ==
    /\ pc = "digital_collection"
    /\ IF ~Has(metadata[1], "digital_collection")
       THEN Raise("KeyError")
       ELSE Goto("physical",
                 [self EXCEPT !.digital_collection = metadata[1]["digital_collection"]], fields)

SetPhysicalCollections ==
    /\ pc = "physical"
    /\ Goto("years",
            [self EXCEPT !.physical_collections = get_original_collections(metadata),
                         !.physical_call_numbers = get_original_call_numbers(metadata)],
            fields)

SetYears ==
    /\ pc = "years"
    /\ IF get_years(metadata).exc /= "none"
       THEN Raise(get_years(metadata).exc)
       ELSE Goto("geographic_terms",
                 [self EXCEPT !.years = get_years(metadata).value], fields)

SetGeographicTerms ==
    /\ pc = "geographic_terms"
    /\ Goto("descriptions",
            [self EXCEPT !.geographic_terms = get_geographic_terms(metadata, self.avian)],
            fields)

SetDescriptions ==
    /\ pc = "descriptions"
    /\ IF get_collection_descriptions(metadata).exc /= "none"
       THEN Raise(get_collection_descriptions(metadata).exc)
       ELSE Goto("leader",
                 [self EXCEPT !.bio_hist = get_collection_descriptions(metadata).bio_hist,
                              !.summary = get_collection_descriptions(metadata).summary],
                 fields)

\* leader[6], [7], [8], [17], [18]
SetLeader ==
    /\ pc = "leader"
    /\ Goto("008", [self EXCEPT !.leader = <<"P", "c", "a", "I", "i">>], fields)

\* generate_008_field: add_041_field runs inside it, before add_field gets the 008
generate_008_field(fs, lang) ==
    Append(IF Len(lang) > 1 THEN add(fs, "041", <<" ", " ">>, _repeat_subfields(lang)) ELSE fs,
           MkControlField("008", Today \o <<"         iau     o           ">>
                                       \o lang[1] \o <<" d">>))

Add008 ==
    /\ pc = "008"
    /\ IF get_languages(metadata) = <<>>
       THEN Raise("IndexError")
       ELSE Goto("040", self, generate_008_field(fields, get_languages(metadata)))

Add040 ==
    /\ pc = "040"
    /\ Goto("043", self,
            add(fields, "040", <<" ", " ">>,
                <<<<"a">>, <<"IWA">>, <<"b">>, <<"eng">>, <<"e">>, <<"dacs">>,
                  <<"e">>, <<"rda">>, <<"c">>, <<"IWA">>>>))

Add043 ==
    /\ pc = "043"
    /\ Goto("245", self, add_geographic_area_codes(fields, self.geographic_terms))

Add245 ==
    /\ pc = "245"
    /\ IF ~Has(metadata[1], "title")
       THEN Raise("KeyError")
       ELSE Goto("264", self,
                 add(fields, "245", <<" ", " ">>,
                     get_title(metadata) \o <<<<"f">>, get_date_range(self.years)>>))

Add264 ==
    /\ pc = "264"
    /\ Goto("300", self,
            add(fields, "264", <<" ", "1">>,
                <<<<"a">>, <<"Ames, Iowa :">>, <<"b">>, <<"Iowa State University Library,">>>>))

Add300 ==
    /\ pc = "300"
    /\ IF get_object_count(metadata).exc /= "none"
       THEN Raise(get_object_count(metadata).exc)
       ELSE Goto("545", self,
                 add(fields, "300", <<" ", " ">>,
                     <<<<"a">>, <<"1 online resource (",
                                 ToString(get_object_count(metadata).value),
                                 " digital objects)">>>>))

Add545 ==
    /\ pc = "545"
    /\ Goto("520", self, add(fields, "545", <<" ", " ">>, <<<<"a">>, self.bio_hist>>))

Add520 ==
    /\ pc = "520"
    /\ Goto("506", self, add(fields, "520", <<"2", " ">>, <<<<"a">>, self.summary>>))

Add506 ==
    /\ pc = "506"
    /\ Goto("524", self,
            add(fields, "506", <<" ", " ">>,
                <<<<"a">>, <<"For copyright and re-use status, please consult the individual objects record.">>>>))

add_preferred_citation ==
    /\ pc = "524"
    /\ Goto("534", self,
            add(fields, "524", <<" ", " ">>,
                <<<<"a">>, citation_string(self.digital_collection,
                                           get_original_collections(metadata),
                                           get_original_call_numbers(metadata),
                                           self.max)>>))

Add534 ==
    /\ pc = "534"
    /\ Goto("500", self,
            fields \o original_version_fields(self.physical_collections,
                                              self.physical_call_numbers))

Add500 ==
    /\ pc = "500"
    /\ Goto("600", self,
            IF self.disclaimer /= <<>>
            THEN add(fields, "500", <<" ", " ">>, <<<<"a">>, self.disclaimer>>)
            ELSE fields)

add_personal_name_subjects ==
    /\ pc = "600"
    /\ Goto("610", self,
            _add_terms_multiple_vocabularies(
                fields, "600", SliceTo(get_personal_name_subjects(metadata), self.max), "1", "4"))

add_corporate_name_subjects ==
    /\ pc = "610"
    /\ Goto("650", self,
            _add_terms_multiple_vocabularies(
                fields, "610", SliceTo(get_corporate_name_subjects(metadata), self.max), "2", "4"))

add_topic_subjects ==
    /\ pc = "650"
    /\ Goto("651", self,
            _add_terms(fields, "650", <<" ", "7">>,
                       SliceTo(get_topic_subjects(metadata), self.max), <<<<"2">>, <<"fast">>>>))

add_geographic_subjects ==
    /\ pc = "651"
    /\ Goto("655", self,
            _add_terms(fields, "651", <<" ", "7">>,
                       SliceTo(get_geographic_terms(metadata, self.avian), self.max),
                       <<<<"2">>, <<"fast">>>>))

add_genre_forms ==
    /\ pc = "655"
    /\ Goto("700", self,
            _add_terms(fields, "655", <<" ", "7">>, get_genre_forms(metadata),
                       <<<<"2">>, <<"aat">>>>))

add_personal_creators_contributors ==
    /\ pc = "700"
    /\ Goto("710", self,
            _add_terms(fields, "700", <<"1", " ">>,
                       SliceTo(get_personal_creators_contributors(metadata), self.max), <<>>))

add_corperate_creators_contributors ==
    /\ pc = "710"
    /\ Goto("710isu", self,
            _add_terms(fields, "710", <<"2", " ">>,
                       SliceTo(get_corporate_creators_contributors(metadata), self.max), <<>>))

Add710 ==
    /\ pc = "710isu"
    /\ Goto("856", self,
            add(fields, "710", <<"2", " ">>,
                <<<<"a">>, <<"Iowa State University.">>, <<"b">>, <<"Library">>,
                  <<"b">>, <<"Digital Collections.">>>>))

Add856WithDefaults ==
    /\ pc = "856"
    /\ Goto("finding_aids", self,
            add(fields, "856", <<"4", "0">>,
                <<<<"3">>, Get(metadata[1], "title", <<>>),
                  <<"u">>, Get(metadata[1], "ark", <<>>)>>))

Add856 ==
    /\ pc = "856"
    /\ IF ~Has(metadata[1], "title") \/ ~Has(metadata[1], "ark")
       THEN Raise("KeyError")
       ELSE Goto("finding_aids", self,
                 add(fields, "856", <<"4", "0">>,
                     <<<<"3">>, metadata[1]["title"], <<"u">>, metadata[1]["ark"]>>))

add_finding_aid_links ==
    /\ pc = "finding_aids"
    /\ Goto("write", self, fields \o finding_aid_fields(metadata, self.max))

\* with open(args.out, "wb") as fh: fh.write(record.as_marc())
WriteOut ==
    /\ pc = "write"
    /\ pc' = "done"
    /\ out' = "written"
    /\ UNCHANGED <<metadata, args, self, fields, locals, raised, ret>>

Next ==
    \/ Construct
    \/ SetDisclaimer
    \/ SetDigitalCollection
    \/ SetPhysicalCollections
    \/ SetYears
    \/ SetGeographicTerms
    \/ SetDescriptions
    \/ SetLeader
    \/ Add008
    \/ Add040
    \/ Add043
    \/ Add245
    \/ Add264
    \/ Add300
    \/ Add545
    \/ Add520
    \/ Add506
    \/ add_preferred_citation
    \/ Add534
    \/ Add500
    \/ add_personal_name_subjects
    \/ add_corporate_name_subjects
    \/ add_topic_subjects
    \/ add_geographic_subjects
    \/ add_genre_forms
    \/ add_personal_creators_contributors
    \/ add_corperate_creators_contributors
    \/ Add710
    \/ Add856
    \/ add_finding_aid_links
    \/ WriteOut

----------------------------------------------------------------------------
(* The inputs *)

\* the sequences over S of length at most n
RECURSIVE SeqsUpTo(_, _)
SeqsUpTo(S, n) ==
    IF n = 0 THEN {<<>>}
    ELSE LET shorter == SeqsUpTo(S, n - 1)
         IN  shorter \cup {Append(q, x) : q \in {r \in shorter : Len(r) = n - 1}, x \in S}

Without(row, column) == [c \in (DOMAIN row) \ {column} |-> row[c]]

With(row, column, cell) == (column :> cell) @@ row

\* a row with every column the build reads by subscript
BaseRow ==
    ("title" :> <<"t">>)
    @@ ("digital_collection" :> <<"d">>)
    @@ ("ark" :> <<"k">>)
    @@ ("description" :> <<"h", "The collection", "s">>)
    @@ ("date_original" :> <<"1", "9", "5", "0", "-", "0", "1">>)
    @@ ("language" :> <<"eng">>)

\* a row with three terms in every term column
RichRow ==
    ("aat_genre" :> <<"a", ";", "b", ";", "c">>)
    @@ ("topical_subject_fast" :> <<"a", ";", "b">>)
    @@ ("topical_subject_local" :> <<"b", ";", "c">>)
    @@ ("geographic_subject_fast" :> <<"Iowa", ";", "x">>)
    @@ ("geographic_subject_local" :> <<"Boone County (", "Iowa", ")">>)
    @@ ("geographic_subject_geonames" :> <<"Illinois", ";", "y", ";", "z">>)
    @@ ("personal_name_subject" :> <<"a", ";", "b", ";", "c">>)
    @@ ("personal_name_subject_valueURI" :> <<"h", "id.loc.gov", ";", "h", "id.worldcat.org/fast">>)
    @@ ("corporate_name_subject" :> <<"a", ";", " ", ";", "c">>)
    @@ ("corporate_name_subject_valueURI" :> <<"h", ";", "h", ";", "h", ";", "h">>)
    @@ ("personal_creator" :> <<"a", ";", "b">>)
    @@ ("interviewee" :> <<"c">>)
    @@ ("corporate_creator" :> <<"a", ";", "b">>)
    @@ ("corporate_contributor" :> <<"c">>)
    @@ ("archival_collection" :> <<"a", " ", "o", "f", " ", "b", ";", "c", ";", "d">>)
    @@ ("archival_call_number" :> <<"1", ";", "2", ";", "3">>)
    @@ ("finding_aid_ark" :> <<"f", ";", "g", ";", "i">>)
    @@ ("language" :> <<"eng", ";", "fre">>)
    @@ ("disclaimer" :> <<"x">>)
    @@ BaseRow

SixTerms == <<"a", ";", "b", ";", "c", ";", "d", ";", "e", ";", "f">>

\* a row with six terms where the default max of 5 cuts
SixRow ==
    ("aat_genre" :> SixTerms)
    @@ ("topical_subject_fast" :> SixTerms)
    @@ ("archival_collection" :> SixTerms)
    @@ ("archival_call_number" :> SixTerms)
    @@ ("finding_aid_ark" :> SixTerms)
    @@ BaseRow

\* a row whose cells split into empty and blank pieces: "a;;b", "a;", "a; "
BlankRow ==
    ("topical_subject_fast" :> <<"a", ";", ";", "b">>)
    @@ ("aat_genre" :> <<"a", ";">>)
    @@ ("corporate_creator" :> <<"a", ";", " ">>)
    @@ ("personal_creator" :> <<" ", ";", "a", ";", "b">>)
    @@ ("personal_name_subject" :> <<" ", ";", "a", ";", ";", "b">>)
    @@ ("corporate_name_subject" :> <<"a", ";", " ">>)
    @@ ("corporate_name_subject_valueURI" :> <<"h", "id.loc.gov", ";", "h">>)
    @@ BaseRow

\* a row of a collection whose call number and finding aid are not recorded
UncataloguedRow ==
    ("archival_collection" :> <<"p">>)
    @@ ("archival_call_number" :> <<>>)
    @@ ("finding_aid_ark" :> <<>>)
    @@ BaseRow

\* a row of another collection, with its call number and finding aid
CataloguedRow ==
    ("archival_collection" :> <<"q">>)
    @@ ("archival_call_number" :> <<"2">>)
    @@ ("finding_aid_ark" :> <<"g">>)
    @@ BaseRow

\* a row with a name subject and no personal_name_subject_valueURI column
NameRow == ("personal_name_subject" :> <<"n">>) @@ BaseRow

Required == {"title", "digital_collection", "ark", "description"}

FirstRows ==
    {BaseRow, RichRow, SixRow, BlankRow, UncataloguedRow, NameRow}
    \cup {Without(BaseRow, c) : c \in Required \cup {"date_original", "language"}}
    \cup {Without(RichRow, c) : c \in Required}
    \cup {With(BaseRow, c, <<>>) : c \in {"date_original", "language", "disclaimer", "description"}}
    \cup {With(BaseRow, "description", <<"h">>),
          Without(With(BaseRow, "description", <<"h">>), "title"),
          With(BaseRow, "title", <<"t", ":", "u">>),
          With(BaseRow, "disclaimer", <<"x">>)}

LaterRows ==
    {BaseRow, RichRow, CataloguedRow,
     Without(BaseRow, "ark"),
     Without(BaseRow, "date_original"),
     With(BaseRow, "ark", <<>>),
     With(BaseRow, "disclaimer", <<"y">>),
     With(With(BaseRow, "date_original", <<"1", "9", "6", "2">>), "aat_genre", <<"b">>),
     ("ark" :> <<"k">>) @@ ("date_original" :> <<>>)}

RowSets ==
    {<<>>} \cup {<<first>> \o rest : first \in FirstRows, rest \in SeqsUpTo(LaterRows, MaxRows - 1)}

\* main passes no max; a caller of IslandoraRecord may
MaxValues == (1..MaxMax) \cup {DefaultMax}

InitCall ==
    /\ self = NoSelf
    /\ fields = <<>>
    /\ locals = <<>>
    /\ raised = "none"
    /\ out = "unopened"
    /\ ret = <<>>

Init ==
    /\ metadata \in RowSets
    /\ args \in {[avian |-> FALSE, max |-> m] : m \in MaxValues}
                \cup {[avian |-> TRUE, max |-> DefaultMax]}
    /\ pc = "main"
    /\ InitCall

Spec == Init /\ [][Next]_vars

----------------------------------------------------------------------------
(* The term aggregator called alone *)

TermCells == {<<>>, <<"a">>, <<"a", ";", "b", ";", "c">>, <<"b", ";", ";", "a">>}

\* the rows with any of the columns, each cell from cells[column]
RowsOver(columns, cells) ==
    UNION {[present -> cells] : present \in SUBSET columns}

TermRows == RowsOver({"topical_subject_fast", "topical_subject_local"}, TermCells)

TermColumnLists ==
    {<<"topical_subject_fast">>,
     <<"topical_subject_fast", "topical_subject_local">>,
     <<"topical_subject_local", "topical_subject_fast">>}

PairTermCells == {<<>>, <<"a">>, <<"a", ";", "b">>, <<"b", ";", ";", "a">>}

PairURICells ==
    {<<>>, <<"u">>, <<"u", ";", "v">>, <<"u", ";", "v", ";", "w">>}

PairRows ==
    {r \in RowsOver({"personal_name_subject", "personal_name_subject_valueURI"},
                    PairTermCells \cup PairURICells) :
        /\ Has(r, "personal_name_subject") => r["personal_name_subject"] \in PairTermCells
        /\ Has(r, "personal_name_subject_valueURI")
              => r["personal_name_subject_valueURI"] \in PairURICells}

InitTerms ==
    /\ \/ /\ metadata \in SeqsUpTo(TermRows, MaxTermRows)
          /\ args \in {[fn |-> "_get_terms", columns |-> c] : c \in TermColumnLists}
       \/ /\ metadata \in SeqsUpTo(PairRows, MaxTermRows)
          /\ args = [fn |-> "_get_terms_and_uris", columns |-> <<"personal_name_subject">>]
    /\ pc = "call"
    /\ InitCall

\* the call returns value; the locals observed are kept
Return(value, observed) ==
    /\ pc' = "return"
    /\ ret' = value
    /\ locals' = observed
    /\ UNCHANGED <<metadata, args, self, fields, raised, out>>

Call_get_terms ==
    /\ pc = "call"
    /\ args.fn = "_get_terms"
    /\ Return(_get_terms(metadata, args.columns),
              [terms_counter |-> CountColumns(<<>>, metadata, args.columns, ";")])

Call_get_terms_and_uris ==
    /\ pc = "call"
    /\ args.fn = "_get_terms_and_uris"
    /\ Return(_get_terms_and_uris(metadata, args.columns),
              [terms_counter |-> CountPairColumns(<<>>, metadata, args.columns)])

NextTerms == Call_get_terms \/ Call_get_terms_and_uris

SpecTerms == InitTerms /\ [][NextTerms]_vars

----------------------------------------------------------------------------
(* _add_terms_multiple_vocabularies called alone *)

VocabTerms == {<<>>, <<" ">>, <<"a">>, <<" ", "a">>}

VocabURIs ==
    {<<>>, <<" ">>, <<"h", "x">>,
     <<"h", "id.loc.gov", "n">>,
     <<"h", "id.worldcat.org/fast", "1">>,
     <<"id.worldcat.org/fast", "id.loc.gov">>}

InitVocab ==
    /\ metadata = <<>>
    /\ args \in {[fn |-> "_add_terms_multiple_vocabularies", tag |-> c[1],
                  terms_uris |-> p, first_indicator |-> c[2],
                  fallback_2nd_indicator |-> f] :
                    c \in {<<"600", "1">>, <<"610", "2">>},
                    p \in SeqsUpTo(VocabTerms \X VocabURIs, MaxPairs),
                    f \in {"4", "0"}}
    /\ pc = "call"
    /\ InitCall

Call_add_terms_multiple_vocabularies ==
    /\ pc = "call"
    /\ pc' = "return"
    /\ fields' = _add_terms_multiple_vocabularies(fields, args.tag, args.terms_uris,
                      args.first_indicator, args.fallback_2nd_indicator)
    /\ UNCHANGED <<metadata, args, self, locals, raised, out, ret>>

NextVocab == Call_add_terms_multiple_vocabularies

SpecVocab == InitVocab /\ [][NextVocab]_vars

----------------------------------------------------------------------------
(* get_years and get_date_range called alone *)

DateCells ==
    {<<>>,
     <<"1", "9", "5", "0">>,
     <<"1", "9", "5", "0", "-", "0", "1">>,
     <<"1", "9", "6", "2">>,
     <<"1", "9", "6", "2", "-", "1", "2">>}

DateRows == RowsOver({"date_original"}, DateCells)

InitDates ==
    /\ metadata \in SeqsUpTo(DateRows, MaxDateRows)
    /\ args = [fn |-> "get_date_range"]
    /\ pc = "call"
    /\ InitCall

\* self.years = self.get_years(), then self.get_date_range()
Call_get_date_range ==
    /\ pc = "call"
    /\ IF get_years(metadata).exc /= "none"
       THEN Raise(get_years(metadata).exc)
       ELSE /\ pc' = "return"
            /\ self' = [self EXCEPT !.years = get_years(metadata).value]
            /\ ret' = get_date_range(get_years(metadata).value)
            /\ UNCHANGED <<metadata, args, fields, locals, raised, out>>

NextDates == Call_get_date_range

SpecDates == InitDates /\ [][NextDates]_vars

----------------------------------------------------------------------------
(* title_case called alone *)

TitleWords ==
    {<<"t", "h", "e">>, <<"e", "n", "d">>, <<"o", "f">>, <<"r", "o", "a", "d">>, <<"A">>}

Titles == {Join(<<" ">>, ws) : ws \in SeqsUpTo(TitleWords, MaxWords)}

InitTitle ==
    /\ metadata = <<>>
    /\ args \in {[fn |-> "title_case", title |-> t] : t \in Titles}
    /\ pc = "call"
    /\ InitCall

Call_title_case ==
    /\ pc = "call"
    /\ Return(title_case(args.title), <<>>)

NextTitle == Call_title_case

SpecTitle == InitTitle /\ [][NextTitle]_vars

----------------------------------------------------------------------------
(* add_geographic_area_codes called alone *)

\* geographic terms: in the table or not, with "Iowa" inside or not, and ""
GeoTerms ==
    {<<"Iowa">>, <<"Boone County (", "Iowa", ")">>, <<"Illinois">>,
     <<"Iowa", " City">>, <<"x">>, <<>>}

\* the aggregator returns each term once
Distinct(xs) == \A i, j \in 1..Len(xs) : xs[i] = xs[j] => i = j

InitGeo ==
    /\ metadata = <<>>
    /\ args = [fn |-> "add_geographic_area_codes"]
    /\ pc = "call"
    /\ self \in {[NoSelf EXCEPT !.geographic_terms = t] :
                    t \in {q \in SeqsUpTo(GeoTerms, MaxGeoTerms) : Distinct(q)}}
    /\ fields = <<>>
    /\ locals = <<>>
    /\ raised = "none"
    /\ out = "unopened"
    /\ ret = <<>>

Call_add_geographic_area_codes ==
    /\ pc = "call"
    /\ pc' = "return"
    /\ fields' = add_geographic_area_codes(fields, self.geographic_terms)
    /\ locals' = [geographic_area_codes |-> geographic_area_codes(self.geographic_terms)]
    /\ UNCHANGED <<metadata, args, self, raised, out, ret>>

NextGeo == Call_add_geographic_area_codes

SpecGeo == InitGeo /\ [][NextGeo]_vars

----------------------------------------------------------------------------
(* What the claims speak of *)

RECURSIVE Concat(_)
Concat(seqs) == IF seqs = <<>> THEN <<>> ELSE Head(seqs) \o Concat(Tail(seqs))

\* the pieces of a non-empty cell of a row that has the column
PiecesAt(row, column) ==
    IF Has(row, column) /\ row[column] /= <<>> THEN Split(row[column], ";") ELSE <<>>

\* every piece of the requested columns: column by column in the given order,
\* within a column row by row, within a cell left to right
TermOccurrences(rows, columns) ==
    Concat([k \in 1..Len(columns) |->
               Concat([i \in 1..Len(rows) |-> PiecesAt(rows[i], columns[k])])])

\* the pairs the code forms of one row, in the order it forms them
PairsAt(row, column) ==
    LET t == Get(row, column, <<" ">>)
        u == Get(row, ValueURIColumn(column), <<" ">>)
    IN  IF t = <<>> THEN <<>>
        ELSE IF Contains(t, ";") THEN ZipLongest(Split(t, ";"), Split(u, ";"), <<>>)
        ELSE <<<<t, u>>>>

PairOccurrences(rows, columns) ==
    Concat([k \in 1..Len(columns) |->
               Concat([i \in 1..Len(rows) |-> PairsAt(rows[i], columns[k])])])

CountOf(x, occ) == Cardinality({i \in 1..Len(occ) : occ[i] = x})

Occurs(x, occ) == \E i \in 1..Len(occ) : occ[i] = x

FirstSeen(x, occ) == CHOOSE i \in 1..Len(occ) : occ[i] = x /\ \A j \in 1..(i - 1) : occ[j] /= x

\* what the aggregator called alone has scanned
Scanned ==
    IF args.fn = "_get_terms"
    THEN TermOccurrences(metadata, args.columns)
    ELSE PairOccurrences(metadata, args.columns)

\* a before b in the frequency order: more occurrences, or as many and seen first
RanksBefore(a, b, occ) ==
    \/ CountOf(a, occ) > CountOf(b, occ)
    \/ CountOf(a, occ) = CountOf(b, occ) /\ FirstSeen(a, occ) < FirstSeen(b, occ)

----------------------------------------------------------------------------
(* C1 *)

\* C1: the sequence the aggregator returns (_get_terms, and _get_terms_and_uris
\* for pairs) is ordered by descending occurrence count, terms of equal count in
\* the order they were first met (columns in the given order, rows in order,
\* pieces left to right); so no prefix of it has a term of lower count before a
\* term of higher count.
C1_FrequencyOrder ==
    pc = "return" =>
        /\ \A i \in 1..Len(ret) : Occurs(ret[i], Scanned)
        /\ \A i, j \in 1..Len(ret) : i < j => RanksBefore(ret[i], ret[j], Scanned)
        /\ \A n \in 0..Len(ret) : \A i, j \in 1..Len(SliceTo(ret, n)) :
               i < j => CountOf(SliceTo(ret, n)[i], Scanned) >= CountOf(SliceTo(ret, n)[j], Scanned)

\* C1 witness: _get_terms has returned three terms or more, two of them of
\* equal count, and a term met later than another stands before it because its
\* count is higher
C1_Witness ==
    /\ pc = "return"
    /\ args.fn = "_get_terms"
    /\ Len(args.columns) = 2
    /\ Len(ret) >= 3
    /\ \E i, j \in 1..Len(ret) :
           i < j /\ CountOf(ret[i], Scanned) = CountOf(ret[j], Scanned)
    /\ \E i, j \in 1..Len(ret) :
           i < j /\ FirstSeen(ret[i], Scanned) > FirstSeen(ret[j], Scanned)

----------------------------------------------------------------------------
(* C2 *)

\* C2: _get_terms returns each distinct piece once; the terms returned are
\* exactly the pieces of the non-empty cells of the requested columns, split on
\* ";" and not trimmed; the count kept for a piece is the number of its
\* occurrences over all rows and requested columns; an empty cell and a row
\* without the column add nothing; with no non-empty cell the result is the
\* empty sequence and nothing is raised; the single cell "a;b;c" gives [a, b, c].
C2_TermsAreThePieces ==
    (pc = "return" /\ args.fn = "_get_terms") =>
        LET occ == TermOccurrences(metadata, args.columns)
            counter == locals.terms_counter
        IN  /\ \A i, j \in 1..Len(ret) : ret[i] = ret[j] => i = j
            /\ {ret[i] : i \in 1..Len(ret)} = {occ[k] : k \in 1..Len(occ)}
            /\ {counter[i].key : i \in 1..Len(counter)} = {ret[i] : i \in 1..Len(ret)}
            /\ \A i \in 1..Len(counter) : counter[i].n = CountOf(counter[i].key, occ)
            /\ (occ = <<>> => ret = <<>>)
            /\ raised = "none"
            /\ (/\ metadata = <<("topical_subject_fast" :> <<"a", ";", "b", ";", "c">>)>>
                /\ args.columns = <<"topical_subject_fast">>)
                   => ret = <<<<"a">>, <<"b">>, <<"c">>>>

\* C2 witness: _get_terms has returned after scanning two columns of two rows,
\* one row lacking a column and one cell empty, a piece occurring in both
\* columns and counted twice or more, the empty piece among the terms
C2_Witness ==
    /\ pc = "return"
    /\ args.fn = "_get_terms"
    /\ Len(args.columns) = 2
    /\ Len(metadata) = 2
    /\ \E i \in 1..2 : ~Has(metadata[i], args.columns[1])
    /\ \E i \in 1..2 : Has(metadata[i], args.columns[2]) /\ metadata[i][args.columns[2]] = <<>>
    /\ \E x \in {ret[i] : i \in 1..Len(ret)} :
           /\ Occurs(x, TermOccurrences(metadata, <<args.columns[1]>>))
           /\ Occurs(x, TermOccurrences(metadata, <<args.columns[2]>>))
           /\ CountOf(x, TermOccurrences(metadata, args.columns)) >= 2
    /\ \E i \in 1..Len(ret) : ret[i] = <<>>

----------------------------------------------------------------------------
(* C3 *)

\* the pairs C3 has counted for one row: a term cell of two or more pieces
\* gives one pair per term piece, with the URI piece of the same position or ""
TermAuthoritativePairsAt(row, column) ==
    LET t == Get(row, column, <<" ">>)
        u == Get(row, ValueURIColumn(column), <<" ">>)
        ts == Split(t, ";")
        uris == Split(u, ";")
    IN  IF t = <<>> THEN <<>>
        ELSE IF Contains(t, ";")
        THEN [i \in 1..Len(ts) |-> <<ts[i], IF i <= Len(uris) THEN uris[i] ELSE <<>>>>]
        ELSE <<<<t, u>>>>

TermAuthoritativeOccurrences(rows, columns) ==
    Concat([k \in 1..Len(columns) |->
               Concat([i \in 1..Len(rows) |-> TermAuthoritativePairsAt(rows[i], columns[k])])])

\* C3: in _get_terms_and_uris the term cell is authoritative: a row whose term
\* cell has k >= 2 pieces counts exactly k pairs, the i-th term piece with the
\* i-th URI piece or with "" when the URI cell has fewer pieces; no pair is
\* counted whose term is not a piece of the term cell, however many pieces the
\* URI cell has.
C3_TermCellIsAuthoritative ==
    (pc = "return" /\ args.fn = "_get_terms_and_uris") =>
        LET occ == TermAuthoritativeOccurrences(metadata, args.columns)
            counter == locals.terms_counter
        IN  /\ {counter[i].key : i \in 1..Len(counter)} = {occ[k] : k \in 1..Len(occ)}
            /\ \A i \in 1..Len(counter) : counter[i].n = CountOf(counter[i].key, occ)

----------------------------------------------------------------------------
(* C4 *)

\* a term of spaces only, or empty
Blank(t) == \A i \in 1..Len(t) : t[i] = " "

NonBlankTerm(pair) == ~Blank(pair[1])

\* C4: for every (term, uri) pair with a non-blank term
\* _add_terms_multiple_vocabularies emits exactly one field, with the caller's
\* tag and first indicator, by the first rule that matches: uri contains
\* "id.loc.gov": second indicator "0", subfields (a, term); else uri contains
\* "id.worldcat.org/fast": "7" and (a, term, 2, fast); else uri is "": "7" and
\* (a, term, 2, local); else the caller's fallback second indicator and
\* (a, term).  (The fields are also in the order of the pairs, and a pair with
\* a blank term emits none.)
C4_VocabularyRules ==
    pc = "return" =>
        LET pairs == SelectSeq(args.terms_uris, NonBlankTerm)
        IN  /\ Len(fields) = Len(pairs)
            /\ \A i \in 1..Len(pairs) :
                   LET t == pairs[i][1]
                       u == pairs[i][2]
                       f == fields[i]
                       loc == Contains(u, "id.loc.gov")
                       fast == ~loc /\ Contains(u, "id.worldcat.org/fast")
                       local == ~loc /\ ~fast /\ u = <<>>
                       other == ~loc /\ ~fast /\ ~local
                   IN  /\ f.tag = args.tag
                       /\ f.ind[1] = args.first_indicator
                       /\ loc => f.ind[2] = "0" /\ f.sub = <<<<"a">>, t>>
                       /\ fast => f.ind[2] = "7" /\ f.sub = <<<<"a">>, t, <<"2">>, <<"fast">>>>
                       /\ local => f.ind[2] = "7" /\ f.sub = <<<<"a">>, t, <<"2">>, <<"local">>>>
                       /\ other => /\ f.ind[2] = args.fallback_2nd_indicator
                                   /\ f.sub = <<<<"a">>, t>>

\* C4 witness: two fields were emitted for two pairs with non-blank terms, one
\* whose uri contains both markers and one whose uri is unrecognized
C4_Witness ==
    /\ pc = "return"
    /\ Len(fields) = 2
    /\ Len(args.terms_uris) = 2
    /\ Contains(args.terms_uris[1][2], "id.loc.gov")
    /\ Contains(args.terms_uris[1][2], "id.worldcat.org/fast")
    /\ args.terms_uris[2][2] = <<" ">>
    /\ fields[2].ind[2] = args.fallback_2nd_indicator

----------------------------------------------------------------------------
(* C5 *)

\* the distinct years of the non-empty date_original cells
DistinctYears(rows) ==
    {SliceTo(rows[i]["date_original"], 4) :
        i \in {j \in 1..Len(rows) : rows[j]["date_original"] /= <<>>}}

Earliest(years) == CHOOSE y \in years : \A z \in years : z = y \/ StrLess(y, z)

Latest(years) == CHOOSE y \in years : \A z \in years : z = y \/ StrLess(z, y)

\* C5: the date range of 245 $f is "" when no row has a non-empty
\* date_original; the single year alone when the years of the non-empty cells
\* are one distinct year, however many rows carry it; "{earliest}-{latest}."
\* with earliest < latest when they are more than one distinct year.
C5_DateRange ==
    pc = "return" =>
        LET years == DistinctYears(metadata)
        IN  /\ years = {} => ret = <<>>
            /\ Cardinality(years) = 1 => ret = Earliest(years)
            /\ Cardinality(years) > 1 =>
                   /\ ret = Earliest(years) \o <<"-">> \o Latest(years) \o <<".">>
                   /\ StrLess(Earliest(years), Latest(years))

----------------------------------------------------------------------------
(* C6 *)

\* the stopwords of C6: those of the code and the articles it leaves out
Stopwords == dont_capitalize \cup {<<"A", "n">>, <<"T", "h", "e">>}

\* a word with its first letter upper-cased and the others lower-cased
Capitalized(word) == [i \in 1..Len(word) |-> IF i = 1 THEN Upper(word[i]) ELSE Lower(word[i])]

\* C6: title_case capitalizes every word except the stopwords (articles, short
\* prepositions and conjunctions), which are lower-cased at an interior
\* position and capitalized as the first or the last word; "the end of the
\* road" gives "The End of the Road".
C6_TitleCase ==
    pc = "return" =>
        LET words == SplitWhitespace(args.title)
        IN  ret = Join(<<" ">>,
                       [i \in 1..Len(words) |->
                           IF 1 < i /\ i < Len(words) /\ Capitalized(words[i]) \in Stopwords
                           THEN StrLower(words[i])
                           ELSE Capitalized(words[i])])

----------------------------------------------------------------------------
(* What the claims about the build speak of *)

\* the fields of the record that satisfy Is, in order
FieldsOf(Is(_)) == SelectSeq(fields, Is)

Is534(f) == f.tag = "534"

Is600(f) == f.tag = "600"

Is610(f) == f.tag = "610"

Is650(f) == f.tag = "650"

Is651(f) == f.tag = "651"

Is655(f) == f.tag = "655"

Is700(f) == f.tag = "700"

\* the 710 fields of the corporate creators and contributors, not the fixed one
IsTerm710(f) == f.tag = "710" /\ f.sub[2] /= <<"Iowa State University.">>

IsFindingAid856(f) == f.tag = "856" /\ f.ind = <<"4", "2">>

\* the value of each field that comes from its term: $t of 534, else the first
\* subfield ($a, or $3 of 856)
FirstValues(fs) ==
    [i \in 1..Len(fs) |-> IF fs[i].tag = "534" THEN fs[i].sub[4] ELSE fs[i].sub[2]]

\* xs can be had from ys by leaving elements out
RECURSIVE IsSubsequence(_, _)
IsSubsequence(xs, ys) ==
    IF xs = <<>> THEN TRUE
    ELSE IF ys = <<>> THEN FALSE
    ELSE IF Head(xs) = Head(ys) THEN IsSubsequence(Tail(xs), Tail(ys))
    ELSE IsSubsequence(xs, Tail(ys))

Map(Op(_), xs) == [i \in 1..Len(xs) |-> Op(xs[i])]

First(pair) == pair[1]

FindingAidLabel(name) == <<"Finding aid for ">> \o title_case(name)

\* the fields of one type are at most max and in the order of the terms
CappedInOrder(Is(_), terms) ==
    /\ Len(FieldsOf(Is)) <= args.max
    /\ IsSubsequence(FirstValues(FieldsOf(Is)), terms)

\* every subscript of the build finds its key and its index
Complete(rows) ==
    /\ rows /= <<>>
    /\ Required \subseteq DOMAIN rows[1]
    /\ get_disclaimer(rows).exc = "none"
    /\ get_years(rows).exc = "none"
    /\ get_object_count(rows).exc = "none"
    /\ get_languages(rows) /= <<>>

----------------------------------------------------------------------------
(* C7 *)

\* C7: every repeatable per-term field type built from aggregated terms is
\* capped: for any input and any max the record has at most max fields of each
\* of 534, 600, 610, 650, 651, 655, 700, term-derived 710 and finding-aid 856,
\* and the fields emitted follow the aggregator's frequency order.
C7_PerTermFieldsCapped ==
    /\ CappedInOrder(Is534, Map(title_case, get_original_collections(metadata)))
    /\ CappedInOrder(Is600, Map(First, get_personal_name_subjects(metadata)))
    /\ CappedInOrder(Is610, Map(First, get_corporate_name_subjects(metadata)))
    /\ CappedInOrder(Is650, get_topic_subjects(metadata))
    /\ CappedInOrder(Is651, get_geographic_terms(metadata, FALSE))
    /\ CappedInOrder(Is655, get_genre_forms(metadata))
    /\ CappedInOrder(Is700, get_personal_creators_contributors(metadata))
    /\ CappedInOrder(IsTerm710, get_corporate_creators_contributors(metadata))
    /\ CappedInOrder(IsFindingAid856, Map(FindingAidLabel, get_original_collections(metadata)))

----------------------------------------------------------------------------
(* C8 *)

\* C8: the avian variant selected as main selects it, IslandoraRecord(rows,
\* avian=True), completes the build, and the geographic terms of the record
\* are those of the geographic_subject_geonames column.
C8_AvianBuildCompletes ==
    (args.avian /\ Complete(metadata) /\ pc \in {"raised", "done"}) =>
        /\ pc = "done"
        /\ self.geographic_terms = _get_terms(metadata, <<"geographic_subject_geonames">>)

----------------------------------------------------------------------------
(* C9 *)

\* C9: for every non-empty row sequence whose first row has title,
\* digital_collection, ark and description the build completes: a column
\* absent or empty on any row (date_original, language, disclaimer, ark on
\* later rows, ...) and an aggregation of zero terms (zero languages too)
\* give empty or omitted fields and never an error.
C9_OptionalInputsNeverRaise ==
    (~args.avian /\ metadata /= <<>> /\ Required \subseteq DOMAIN metadata[1]) =>
        raised = "none"

----------------------------------------------------------------------------
(* C10 *)

MissingRequired == metadata = <<>> \/ ~(Required \subseteq DOMAIN metadata[1])

\* C10: if the row sequence is empty, or the first row lacks one of title,
\* digital_collection, ark and description, the build fails with an error and
\* no record is produced: the run is inside the constructor or has left it by
\* an exception, the constructor never returns a record, and main never opens
\* or writes the output file, whichever field is missing and whatever the
\* other rows hold.
C10_MissingRequiredFails ==
    MissingRequired =>
        /\ out = "unopened"
        /\ pc \notin {"write", "done"}
        /\ pc = "raised" <=> raised \in {"IndexError", "KeyError", "TypeError"}
        /\ pc /= "raised" => raised = "none"

\* C10 witness: the first row lacks only ark, the rows are otherwise complete,
\* and the build has raised at the 856 field, after the 710 fields were added
C10_Witness ==
    /\ pc = "raised"
    /\ raised = "KeyError"
    /\ metadata /= <<>>
    /\ DOMAIN metadata[1] \cap Required = Required \ {"ark"}
    /\ \E i \in 1..Len(fields) : fields[i].tag = "710"
    /\ out = "unopened"

----------------------------------------------------------------------------
(* C11 *)

InTable(term) == term \in DOMAIN area_codes

HasIowa(terms) == \E i \in 1..Len(terms) : Contains(terms[i], "Iowa")

Is043(f) == f.tag = "043"

\* C11: the geographic area codes are the table code of every geographic term
\* that has an entry in the table, in the order of the terms, followed by the
\* code of "Iowa" once at the end if and only if some term contains "Iowa"
\* (whether or not "Iowa" is itself a term); the 043 field is emitted, one $a
\* per code in that order, if and only if the list is not empty; the single
\* term "Boone County (Iowa)" gives [n-us-ia---, n-us-ia].
C11_AreaCodes ==
    pc = "return" =>
        LET terms == self.geographic_terms
            codes == locals.geographic_area_codes
            hits == SelectSeq(terms, InTable)
            n == Len(hits)
        IN  /\ Len(codes) = n + (IF HasIowa(terms) THEN 1 ELSE 0)
            /\ \A i \in 1..n : codes[i] = area_codes[hits[i]]
            /\ HasIowa(terms) => codes[n + 1] = area_codes[<<"Iowa">>]
            /\ codes = <<>> <=> fields = <<>>
            /\ codes /= <<>> =>
                   /\ Len(fields) = 1
                   /\ fields[1].tag = "043"
                   /\ fields[1].ind = <<" ", " ">>
                   /\ Len(fields[1].sub) = 2 * Len(codes)
                   /\ \A i \in 1..Len(codes) :
                          /\ fields[1].sub[2 * i - 1] = <<"a">>
                          /\ fields[1].sub[2 * i] = codes[i]
            /\ terms = <<<<"Boone County (", "Iowa", ")">>>>
                   => codes = <<<<"n-us-ia---">>, <<"n-us-ia">>>>

\* C11 witness: "Iowa" is itself a term, after a term that only contains it
\* and has no entry, and with a term of another state: the 043 field carries the
\* code of Iowa twice, the second time at the end
C11_Witness ==
    /\ pc = "return"
    /\ self.geographic_terms = <<<<"Iowa", " City">>, <<"Illinois">>, <<"Iowa">>>>
    /\ Len(fields) = 1
    /\ fields[1].sub = <<<<"a">>, <<"n-us-il">>, <<"a">>, <<"n-us-ia">>, <<"a">>, <<"n-us-ia">>>>

----------------------------------------------------------------------------
(* C12 *)

IsFixed710(f) == f.tag = "710" /\ f.sub[2] = <<"Iowa State University.">>

IsCollection856(f) == f.tag = "856" /\ f.ind = <<"4", "0">>

Is041(f) == f.tag = "041"

NotIs041(f) == f.tag /= "041"

\* the order of the bibliographic template: the place of a field's kind in it,
\* 0 for a field of no kind of the template
TemplateOrder ==
    <<"008", "040", "043", "245", "264", "300", "545", "520", "506", "524", "534", "500",
      "600", "610", "650", "651", "655", "700", "710", "710isu", "856", "856fa">>

KindOf(f) ==
    IF f.tag = "710" THEN (IF IsFixed710(f) THEN "710isu" ELSE "710")
    ELSE IF f.tag = "856"
    THEN (IF IsCollection856(f) THEN "856"
          ELSE IF IsFindingAid856(f) THEN "856fa" ELSE "other")
    ELSE f.tag

Place(f) ==
    IF \E i \in 1..Len(TemplateOrder) : TemplateOrder[i] = KindOf(f)
    THEN CHOOSE i \in 1..Len(TemplateOrder) : TemplateOrder[i] = KindOf(f)
    ELSE 0

\* the kinds of which a record has exactly one field, and at most one field
ExactlyOnce == {"008", "040", "245", "264", "300", "545", "520", "506", "524", "710isu", "856"}

AtMostOnce == ExactlyOnce \cup {"043", "500"}

NumberOfKind(fs, kind) == Cardinality({i \in 1..Len(fs) : KindOf(fs[i]) = kind})

\* the fields without 041 are in the order of the template
InTemplateOrder ==
    LET fs == SelectSeq(fields, NotIs041)
        places == [i \in 1..Len(fs) |-> Place(fs[i])]
    IN  /\ \A i \in 1..Len(fs) : places[i] >= 1
        /\ \A i \in 1..(Len(fs) - 1) : places[i] <= places[i + 1]
        /\ \A kind \in AtMostOnce : NumberOfKind(fs, kind) <= 1
        /\ \A i \in 1..Len(fs) : fs[i].tag /= "611"
        /\ pc \in {"write", "done"} => \A kind \in ExactlyOnce : NumberOfKind(fs, kind) = 1

\* a step leaves the fields it found as they are and in their places, and puts
\* the new ones after them
AppendsOnly ==
    /\ Len(fields') >= Len(fields)
    /\ SubSeq(fields', 1, Len(fields)) = fields

\* C12: leaving the 041 field aside, the fields of every record built by
\* IslandoraRecord are in one fixed order that does not depend on the data and
\* is not the order of the tags: 008, 040, 043 (if any), 245, 264, 300, 545,
\* 520, 506, 524, every 534, 500 (if any), every 600, 610, 650, 651, 655, 700,
\* term-derived 710, the fixed 710, the collection 856, every finding-aid 856;
\* each add appends at the end and never changes or moves a field already in
\* the sequence; no 611 field is ever emitted.
C12_FixedFieldOrder == []InTemplateOrder /\ [][AppendsOnly]_vars

\* C12 witness: a record is complete with a field of every kind of the
\* template, two or more of 534, 650 and finding-aid 856, and with the tags
\* not ascending (545 before 520 before 506)
C12_Witness ==
    /\ pc = "done"
    /\ \A k \in 1..Len(TemplateOrder) : NumberOfKind(fields, TemplateOrder[k]) >= 1
    /\ \A kind \in {"534", "650", "856fa"} : NumberOfKind(fields, kind) >= 2
    /\ \E i, j \in 1..Len(fields) : i < j /\ TagRank(fields[i].tag) > TagRank(fields[j].tag)
    /\ InTemplateOrder

----------------------------------------------------------------------------
(* C13 *)

\* the repeatable per-term fields of the subjects, genres, creators and
\* contributors
IsPerTerm(f) == f.tag \in {"600", "610", "650", "651", "655", "700"} \/ IsTerm710(f)

\* C13: no 600, 610, 650, 651, 655, 700 or term-derived 710 field is ever
\* emitted with a $a that is empty or only whitespace, whatever the cells
\* ("A;;B", "A;" and "A; " included): a term whose trimmed text is empty gives
\* no field, in _add_terms and in _add_terms_multiple_vocabularies alike.
C13_NoBlankTermField ==
    \A i \in 1..Len(fields) : IsPerTerm(fields[i]) => ~Blank(fields[i].sub[2])

----------------------------------------------------------------------------
(* C14 *)

\* the disclaimer cells of the rows that have the column, in row order
RECURSIVE DisclaimerCells(_)
DisclaimerCells(rows) ==
    IF rows = <<>> THEN <<>>
    ELSE (IF Has(Head(rows), "disclaimer") THEN <<Head(rows)["disclaimer"]>> ELSE <<>>)
         \o DisclaimerCells(Tail(rows))

NotEmpty(cell) == cell /= <<>>

\* the first non-empty disclaimer cell, "" when there is none
FirstDisclaimer(rows) ==
    IF SelectSeq(DisclaimerCells(rows), NotEmpty) = <<>> THEN <<>>
    ELSE Head(SelectSeq(DisclaimerCells(rows), NotEmpty))

Is500(f) == f.tag = "500"

Is545(f) == f.tag = "545"

Is520(f) == f.tag = "520"

\* C14: the disclaimer is the first non-empty disclaimer cell in row order
\* over all rows that have the column, and "" only when no row has the column
\* or every disclaimer cell is empty; the record has the 500 field exactly
\* once, carrying that value, if and only if the value is not empty, and has
\* 545 and 520 exactly once each, also when their value is "".
C14_Disclaimer ==
    /\ pc \notin {"main", "disclaimer", "raised"} =>
           self.disclaimer = FirstDisclaimer(metadata)
    /\ pc \in {"write", "done"} =>
           /\ Len(FieldsOf(Is545)) = 1
           /\ Len(FieldsOf(Is520)) = 1
           /\ FieldsOf(Is545)[1].sub = <<<<"a">>, self.bio_hist>>
           /\ FieldsOf(Is520)[1].sub = <<<<"a">>, self.summary>>
           /\ IF FirstDisclaimer(metadata) /= <<>>
              THEN /\ Len(FieldsOf(Is500)) = 1
                   /\ FieldsOf(Is500)[1].sub = <<<<"a">>, FirstDisclaimer(metadata)>>
              ELSE FieldsOf(Is500) = <<>>

----------------------------------------------------------------------------
(* C15 *)

NotBlank(t) == ~Blank(t)

\* the max highest-ranked non-blank terms of an aggregated sequence
HighestNonBlank(terms) == SliceTo(SelectSeq(terms, NotBlank), args.max)

HighestNonBlankPairs(pairs) == Map(First, SliceTo(SelectSeq(pairs, NonBlankTerm), args.max))

\* C15: a blank term never takes one of the max places: of each field type
\* capped by max (600, 610, 650, 651, 700, term-derived 710) the record has
\* min(max, number of distinct non-blank terms aggregated) fields, so exactly
\* max when there are max non-blank terms or more, and they are the max
\* highest-ranked non-blank terms.
C15_BlankTermsTakeNoPlace ==
    pc \in {"write", "done"} =>
        /\ FirstValues(FieldsOf(Is600)) = HighestNonBlankPairs(get_personal_name_subjects(metadata))
        /\ FirstValues(FieldsOf(Is610)) = HighestNonBlankPairs(get_corporate_name_subjects(metadata))
        /\ FirstValues(FieldsOf(Is650)) = HighestNonBlank(get_topic_subjects(metadata))
        /\ FirstValues(FieldsOf(Is651)) = HighestNonBlank(get_geographic_terms(metadata, FALSE))
        /\ FirstValues(FieldsOf(Is700)) = HighestNonBlank(get_personal_creators_contributors(metadata))
        /\ FirstValues(FieldsOf(IsTerm710)) = HighestNonBlank(get_corporate_creators_contributors(metadata))
        /\ Len(FieldsOf(Is650)) = Min(args.max, Len(SelectSeq(get_topic_subjects(metadata), NotBlank)))

----------------------------------------------------------------------------
(* C16 *)

PieceSet(row, column) == {PiecesAt(row, column)[k] : k \in 1..Len(PiecesAt(row, column))}

\* the pairs of a value of columnA and a value of columnB that are together on
\* some row
TogetherOnARow(columnA, columnB) ==
    UNION {PieceSet(metadata[i], columnA) \X PieceSet(metadata[i], columnB) :
              i \in 1..Len(metadata)}

IsPrefix(p, s) == Len(p) <= Len(s) /\ SubSeq(s, 1, Len(p)) = p

\* s is "{name}, {call number}" of pairs taken from `pairs`, joined by " "
RECURSIVE CitesOnly(_, _)
CitesOnly(s, pairs) ==
    \/ s = <<>>
    \/ \E pair \in pairs :
           LET item == title_case(pair[1]) \o <<", ">> \o pair[2]
           IN  \/ s = item
               \/ /\ IsPrefix(item \o <<" ">>, s)
                  /\ CitesOnly(SubSeq(s, Len(item) + 2, Len(s)), pairs)

Is524(f) == f.tag = "524"

CitationEnd == <<", Special Collections and University Archives, Iowa State University Library.">>

\* the citation names the digital collection, then only pairs of `pairs`
CitationOf(text, pairs) ==
    LET start == self.digital_collection \o <<", ">>
    IN  /\ IsPrefix(start, text)
        /\ Len(text) >= Len(start) + 1
        /\ text[Len(text)] = CitationEnd[1]
        /\ CitesOnly(SubSeq(text, Len(start) + 1, Len(text) - 1), pairs)

\* C16: provenance is paired as the rows pair it: every (collection name, call
\* number) pair of a 534 field or of the 524 citation pairs an
\* archival_collection value with an archival_call_number value that are
\* together on at least one row, and every finding-aid 856 field pairs an
\* archival_collection value with a finding_aid_ark value that are together on
\* at least one row.
C16_ProvenancePairedAsRows ==
    /\ \A i \in 1..Len(fields) : Is534(fields[i]) =>
           \E pair \in TogetherOnARow("archival_collection", "archival_call_number") :
               fields[i].sub[4] = title_case(pair[1]) /\ fields[i].sub[6] = pair[2]
    /\ \A i \in 1..Len(fields) : Is524(fields[i]) =>
           CitationOf(fields[i].sub[2],
                      TogetherOnARow("archival_collection", "archival_call_number"))
    /\ \A i \in 1..Len(fields) : IsFindingAid856(fields[i]) =>
           \E pair \in TogetherOnARow("archival_collection", "finding_aid_ark") :
               fields[i].sub[2] = FindingAidLabel(pair[1]) /\ fields[i].sub[4] = pair[2]

----------------------------------------------------------------------------
(* C17 *)

\* the pairs of one row when a column the row has not is read as an empty cell
PairsAtAbsentAsEmpty(row, column) ==
    LET t == Get(row, column, <<>>)
        u == Get(row, ValueURIColumn(column), <<>>)
    IN  IF t = <<>> THEN <<>>
        ELSE IF Contains(t, ";") THEN ZipLongest(Split(t, ";"), Split(u, ";"), <<>>)
        ELSE <<<<t, u>>>>

PairSetAbsentAsEmpty(rows, column) ==
    UNION {{PairsAtAbsentAsEmpty(rows[i], column)[k] :
               k \in 1..Len(PairsAtAbsentAsEmpty(rows[i], column))} : i \in 1..Len(rows)}

\* the term has "" for source URI wherever it occurs
OnlyWithoutURI(t, pairs) ==
    /\ \E pair \in pairs : pair[1] = t
    /\ \A pair \in pairs : pair[1] = t => pair[2] = <<>>

NameSubjectsAbsentAsEmpty(tag, first_indicator, column, aggregated) ==
    LET pairs == PairSetAbsentAsEmpty(metadata, column)
    IN  /\ \A k \in 1..Len(aggregated) : aggregated[k] \in pairs
        /\ \A i \in 1..Len(fields) :
               (fields[i].tag = tag /\ OnlyWithoutURI(fields[i].sub[2], pairs)) =>
                   /\ fields[i].ind = <<first_indicator, "7">>
                   /\ fields[i].sub = <<<<"a">>, fields[i].sub[2], <<"2">>, <<"local">>>>

\* C17: a row without the <column>_valueURI column is treated as a row whose
\* URI cell is empty: a non-blank personal or corporate name-subject term of
\* such a row is aggregated with source URI "" and emitted as local (second
\* indicator "7", $2 "local"), never with the fallback indicator; a row
\* without the term column itself adds no pair to the counts.
C17_AbsentColumnIsEmptyCell ==
    pc \in {"write", "done"} =>
        /\ NameSubjectsAbsentAsEmpty("600", "1", "personal_name_subject",
                                     get_personal_name_subjects(metadata))
        /\ NameSubjectsAbsentAsEmpty("610", "2", "corporate_name_subject",
                                     get_corporate_name_subjects(metadata))

----------------------------------------------------------------------------
(* C18 *)

Is008(f) == f.tag = "008"

\* the places of the fields that satisfy Is
PlacesOf(Is(_)) == {i \in 1..Len(fields) : Is(fields[i])}

\* C18: in every record built by IslandoraRecord the 008 control field is the
\* first field; when more than one distinct language is aggregated the 041
\* field, one $a per language in frequency order, is there exactly once and
\* after the 008 field, never before it; with one language at most there is
\* no 041 field.
C18_008First ==
    pc \in {"write", "done"} =>
        LET lang == get_languages(metadata)
        IN  /\ fields[1].tag = "008"
            /\ Cardinality(PlacesOf(Is008)) = 1
            /\ IF Len(lang) > 1
               THEN /\ Cardinality(PlacesOf(Is041)) = 1
                    /\ \A i \in PlacesOf(Is041) :
                           /\ \A j \in PlacesOf(Is008) : j < i
                           /\ Len(fields[i].sub) = 2 * Len(lang)
                           /\ \A k \in 1..Len(lang) :
                                  /\ fields[i].sub[2 * k - 1] = <<"a">>
                                  /\ fields[i].sub[2 * k] = lang[k]
               ELSE PlacesOf(Is041) = {}

====
